---- MODULE Spec2Model ----
(***************************************************************************)
(* Model of image_upload.py: a straight-line script that reads the file    *)
(* named by sys.argv[1], base64-encodes it, POSTs it as JSON with an       *)
(* X-Token header and prints the parsed JSON response.                     *)
(*                                                                         *)
(* Text (str) and bytes values are sequences of code points / byte values. *)
(* A Python name that is unbound or None is the empty tuple <<>>, a bound  *)
(* value v is <<v>>.  pc is the line of the statement to run next.         *)
(***************************************************************************)
EXTENDS Integers, Sequences, FiniteSets, TLC

VARIABLES argv, disk, pc, file_path, file_name, file_encoded, image_file,
          raw, r_json, r_headers, r, parsed, posts, stdout, stderr,
          exc, exitStatus, trace

vars == <<argv, disk, pc, file_path, file_name, file_encoded, image_file,
          raw, r_json, r_headers, r, parsed, posts, stdout, stderr,
          exc, exitStatus, trace>>

-----------------------------------------------------------------------------
(* Bounds of the model.                                                    *)

MaxPathLen == 4

MaxFileLen == 3

(* Input alphabets: '/' and 'a' for paths; three byte values that set      *)
(* none, some and all of the bits of a byte.                               *)
PathChars == {47, 97}

ByteVals == {0, 77, 255}

Paths == UNION {[1..n -> PathChars] : n \in 0..MaxPathLen}

FileContents == UNION {[1..n -> ByteVals] : n \in 0..MaxFileLen}

Tokens == {"tok", "to:k en"}

ParentIds == {"0", "5f1e"}

Prog == "image_upload.py"

(* What the server may answer: any status with any body.                   *)
Statuses == {200, 201, 401, 500}

Bodies == {"{\"id\": \"1\"}", "{\"error\": \"Unauthorized\"}", "[]", "<html>", ""}

None == <<>>

Some(v) == <<v>>

-----------------------------------------------------------------------------
(* str.split('/')[-1]                                                      *)

Sep == 47

RECURSIVE SplitFrom(_, _, _)
(* Scan s from index i, cur being the segment collected so far.            *)
SplitFrom(s, i, cur) ==
    IF i > Len(s) THEN <<cur>>
    ELSE IF s[i] = Sep THEN <<cur>> \o SplitFrom(s, i + 1, <<>>)
    ELSE SplitFrom(s, i + 1, Append(cur, s[i]))

Split(s) == SplitFrom(s, 1, <<>>)

FileNameFirst(path) == Split(path)[1]

FileNameAfterFirstSep(path) ==
    LET idx == {i \in 1..Len(path) : path[i] = Sep}
    IN  IF idx = {} THEN path
        ELSE SubSeq(path, (CHOOSE i \in idx : \A j \in idx : i <= j) + 1, Len(path))

FileName(path) == Split(path)[Len(Split(path))]

-----------------------------------------------------------------------------
(* base64.b64encode(...).decode('utf-8')                                   *)

Pad == 61

B64CharUrlSafe(s) ==
    IF s < 26 THEN 65 + s
    ELSE IF s < 52 THEN 97 + (s - 26)
    ELSE IF s < 62 THEN 48 + (s - 52)
    ELSE IF s = 62 THEN 45 ELSE 95

(* The character (as a byte) of the standard alphabet for sextet s.        *)
B64Char(s) ==
    IF s < 26 THEN 65 + s
    ELSE IF s < 52 THEN 97 + (s - 26)
    ELSE IF s < 62 THEN 48 + (s - 52)
    ELSE IF s = 62 THEN 43 ELSE 47

RECURSIVE b64encode(_)
b64encode(bs) ==
    IF Len(bs) = 0 THEN <<>>
    ELSE IF Len(bs) = 1 THEN
        <<B64Char(bs[1] \div 4), B64Char((bs[1] % 4) * 16), Pad, Pad>>
    ELSE IF Len(bs) = 2 THEN
        <<B64Char(bs[1] \div 4),
          B64Char((bs[1] % 4) * 16 + bs[2] \div 16),
          B64Char((bs[2] % 16) * 4), Pad>>
    ELSE
        <<B64Char(bs[1] \div 4),
          B64Char((bs[1] % 4) * 16 + bs[2] \div 16),
          B64Char((bs[2] % 16) * 4 + bs[3] \div 64),
          B64Char(bs[3] % 64)>> \o b64encode(SubSeq(bs, 4, Len(bs)))

(* bytes.decode('utf-8'): a byte below 128 is the code point of the same   *)
(* number; any other byte starts a multi-byte sequence, which a lone byte  *)
(* cannot complete (UnicodeDecodeError, here the code point -1).           *)
Utf8Decode(bs) == [i \in 1..Len(bs) |-> IF bs[i] < 128 THEN bs[i] ELSE -1]

-----------------------------------------------------------------------------
(* requests.Response.json() and print()                                    *)

(* The parsed value of a response body, None when it is not JSON           *)
(* (r.json() raises).                                                      *)
JsonParse(body) ==
    CASE body = "{\"id\": \"1\"}" ->
             Some([kind |-> "dict", items |-> <<<<"id", "1">>>>])
      [] body = "{\"error\": \"Unauthorized\"}" ->
             Some([kind |-> "dict", items |-> <<<<"error", "Unauthorized">>>>])
      [] body = "[]" -> Some([kind |-> "list", items |-> <<>>])
      [] OTHER -> None

(* str() of a parsed value, the line print() writes.                       *)
PyRepr(v) ==
    CASE v = [kind |-> "dict", items |-> <<<<"id", "1">>>>] -> "{'id': '1'}"
      [] v = [kind |-> "dict", items |-> <<<<"error", "Unauthorized">>>>] ->
             "{'error': 'Unauthorized'}"
      [] OTHER -> "[]"

-----------------------------------------------------------------------------
(* Exceptions.  None is caught: an exception that leaves the module body   *)
(* makes the interpreter write a traceback and exit with status 1.         *)

FileErrors == {"FileNotFoundError", "IsADirectoryError", "PermissionError", "OSError"}

(* The specification's name for each exception.                            *)
ErrorKind(e) ==
    CASE e = "IndexError" -> "ArgumentError"
      [] e \in FileErrors -> "FileAccessError"
      [] e = "ConnectionError" -> "NetworkError"
      [] e = "JSONDecodeError" -> "ResponseParseError"
      [] OTHER -> "none"

Raise(e) ==
    /\ exc' = e
    /\ stderr' = Append(stderr, e)
    /\ exitStatus' = Some(1)
    /\ pc' = "exit"

Goto(l) ==
    /\ pc' = l
    /\ UNCHANGED <<exc, stderr, exitStatus>>

(* The exception open() raises for the file at the path, "" when it opens. *)
OpenError(d) ==
    CASE d.kind = "missing" -> "FileNotFoundError"
      [] d.kind = "dir" -> "IsADirectoryError"
      [] d.kind = "unreadable" -> "PermissionError"
      [] OTHER -> ""

(* A path names a regular file only if its last component is not empty.    *)
CanBeFile(p) == Len(p) > 0 /\ p[Len(p)] # Sep

-----------------------------------------------------------------------------
Init ==
    /\ \E n \in 0..3, p \in Paths, tk \in Tokens, pid \in ParentIds :
          /\ argv = SubSeq(<<Prog, p, tk, pid>>, 1, n + 1)
          /\ IF n = 0
             THEN disk = [kind |-> "missing", bytes |-> <<>>]
             ELSE \/ /\ disk \in [kind : {"missing", "dir"}, bytes : {<<>>}]
                  \/ /\ CanBeFile(p)
                     /\ disk \in [kind : {"unreadable"}, bytes : {<<>>}]
                  \/ /\ CanBeFile(p)
                     /\ disk \in [kind : {"file"}, bytes : FileContents]
    /\ pc = "l6"
    /\ file_path = None
    /\ file_name = None
    /\ file_encoded = None
    /\ image_file = [state |-> "unopened", mode |-> ""]
    /\ raw = None
    /\ r_json = None
    /\ r_headers = None
    /\ r = None
    /\ parsed = None
    /\ posts = <<>>
    /\ stdout = <<>>
    /\ stderr = <<>>
    /\ exc = ""
    /\ exitStatus = None
    /\ trace = <<>>

(* line 6: file_path = sys.argv[1]                                         *)
GetFilePath ==
    /\ pc = "l6"
    /\ IF Len(argv) < 2
       THEN Raise("IndexError") /\ UNCHANGED file_path
       ELSE file_path' = Some(argv[2]) /\ Goto("l7")
    /\ UNCHANGED <<argv, disk, file_name, file_encoded, image_file, raw,
                   r_json, r_headers, r, parsed, posts, stdout, trace>>

(* line 7: file_name = file_path.split('/')[-1]                            *)
GetFileName ==
    /\ pc = "l7"
    /\ file_name' = Some(FileName(file_path[1]))
    /\ Goto("l9")
    /\ UNCHANGED <<argv, disk, file_path, file_encoded, image_file, raw,
                   r_json, r_headers, r, parsed, posts, stdout, trace>>

(* line 9: file_encoded = None                                             *)
ClearEncoded ==
    /\ pc = "l9"
    /\ file_encoded' = None
    /\ Goto("l10")
    /\ UNCHANGED <<argv, disk, file_path, file_name, image_file, raw,
                   r_json, r_headers, r, parsed, posts, stdout, trace>>

OpenFileCreating ==
    /\ pc = "l10"
    /\ image_file' = [state |-> "open", mode |-> "ab+"]
    /\ Goto("l11")
    /\ UNCHANGED <<argv, disk, file_path, file_name, file_encoded, raw,
                   r_json, r_headers, r, parsed, posts, stdout, trace>>

(* line 10: with open(file_path, "rb") as image_file                       *)
OpenFile ==
    /\ pc = "l10"
    /\ IF OpenError(disk) # ""
       THEN Raise(OpenError(disk)) /\ UNCHANGED image_file
       ELSE image_file' = [state |-> "open", mode |-> "rb"] /\ Goto("l11")
    /\ UNCHANGED <<argv, disk, file_path, file_name, file_encoded, raw,
                   r_json, r_headers, r, parsed, posts, stdout, trace>>

(* line 11, image_file.read(): the whole file, or an I/O error, which      *)
(* leaves the with block with the exception pending.                       *)
ReadFile ==
    /\ pc = "l11"
    /\ trace' = Append(trace, "read")
    /\ \/ /\ raw' = Some(disk.bytes)
          /\ Goto("l11e")
       \/ /\ exc' = "OSError"
          /\ pc' = "l11x"
          /\ UNCHANGED <<raw, stderr, exitStatus>>
    /\ UNCHANGED <<argv, disk, file_path, file_name, file_encoded, image_file,
                   r_json, r_headers, r, parsed, posts, stdout>>

(* line 11: file_encoded = base64.b64encode(...).decode('utf-8')           *)
Encode ==
    /\ pc = "l11e"
    /\ file_encoded' = Some(Utf8Decode(b64encode(raw[1])))
    /\ trace' = Append(trace, "encode")
    /\ Goto("l11x")
    /\ UNCHANGED <<argv, disk, file_path, file_name, image_file, raw,
                   r_json, r_headers, r, parsed, posts, stdout>>

WithExitLeaveOpen ==
    /\ pc = "l11x"
    /\ IF exc # ""
       THEN Raise(exc)
       ELSE Goto("l13")
    /\ UNCHANGED <<argv, disk, file_path, file_name, file_encoded, image_file,
                   raw, r_json, r_headers, r, parsed, posts, stdout, trace>>

(* end of the with block (lines 10-11): the file is closed, and a pending  *)
(* exception goes on.                                                      *)
WithExit ==
    /\ pc = "l11x"
    /\ image_file' = [image_file EXCEPT !.state = "closed"]
    /\ IF exc # ""
       THEN Raise(exc)
       ELSE Goto("l13")
    /\ UNCHANGED <<argv, disk, file_path, file_name, file_encoded, raw,
                   r_json, r_headers, r, parsed, posts, stdout, trace>>

Url == "http://0.0.0.0:5001/files"

BuildJsonDefaultParent ==
    /\ pc = "l13"
    /\ r_json' = Some([name |-> file_name[1], type |-> "image", isPublic |-> TRUE,
                       data |-> file_encoded[1],
                       parentId |-> IF Len(argv) < 4 THEN "0" ELSE argv[4]])
    /\ trace' = Append(trace, "build")
    /\ Goto("l20")
    /\ UNCHANGED <<argv, disk, file_path, file_name, file_encoded, image_file,
                   raw, r_headers, r, parsed, posts, stdout>>

(* lines 13-19: r_json = {...}; sys.argv[3] is the last item evaluated     *)
BuildJson ==
    /\ pc = "l13"
    /\ IF Len(argv) < 4
       THEN Raise("IndexError") /\ UNCHANGED <<r_json, trace>>
       ELSE /\ r_json' = Some([name |-> file_name[1], type |-> "image",
                               isPublic |-> TRUE, data |-> file_encoded[1],
                               parentId |-> argv[4]])
            /\ trace' = Append(trace, "build")
            /\ Goto("l20")
    /\ UNCHANGED <<argv, disk, file_path, file_name, file_encoded, image_file,
                   raw, r_headers, r, parsed, posts, stdout>>

(* line 20: r_headers = {'X-Token': sys.argv[2]}                           *)
BuildHeaders ==
    /\ pc = "l20"
    /\ IF Len(argv) < 3
       THEN Raise("IndexError") /\ UNCHANGED r_headers
       ELSE r_headers' = Some("X-Token" :> argv[3]) /\ Goto("l22")
    /\ UNCHANGED <<argv, disk, file_path, file_name, file_encoded, image_file,
                   raw, r_json, r, parsed, posts, stdout, trace>>

PostWithRetry ==
    /\ pc = "l22"
    /\ posts' = Append(posts, [url |-> Url, json |-> r_json[1], headers |-> r_headers[1]])
    /\ trace' = Append(trace, "send")
    /\ \/ /\ IF Len(posts) = 0 THEN Goto("l22") ELSE Raise("ConnectionError")
          /\ UNCHANGED r
       \/ /\ \E st \in Statuses, body \in Bodies :
                r' = Some([status_code |-> st, text |-> body])
          /\ Goto("l23")
    /\ UNCHANGED <<argv, disk, file_path, file_name, file_encoded, image_file,
                   raw, r_json, r_headers, parsed, stdout>>

(* line 22: r = requests.post(url, json=r_json, headers=r_headers): the    *)
(* request goes out once; either no response comes back (the exception     *)
(* leaves the script) or a response with some status and some body does.   *)
Post ==
    /\ pc = "l22"
    /\ posts' = Append(posts, [url |-> Url, json |-> r_json[1], headers |-> r_headers[1]])
    /\ trace' = Append(trace, "send")
    /\ \/ /\ Raise("ConnectionError")
          /\ UNCHANGED r
       \/ /\ \E st \in Statuses, body \in Bodies :
                r' = Some([status_code |-> st, text |-> body])
          /\ Goto("l23")
    /\ UNCHANGED <<argv, disk, file_path, file_name, file_encoded, image_file,
                   raw, r_json, r_headers, parsed, stdout>>

ParseJsonEchoFirst ==
    /\ pc = "l23"
    /\ stdout' = Append(stdout, r[1].text)
    /\ IF JsonParse(r[1].text) = None
       THEN Raise("JSONDecodeError") /\ UNCHANGED parsed
       ELSE parsed' = JsonParse(r[1].text) /\ Goto("l23p")
    /\ UNCHANGED <<argv, disk, file_path, file_name, file_encoded, image_file,
                   raw, r_json, r_headers, r, posts, trace>>

ParseJsonSwallow ==
    /\ pc = "l23"
    /\ IF JsonParse(r[1].text) = None
       THEN /\ pc' = "exit"
            /\ exitStatus' = Some(0)
            /\ UNCHANGED <<parsed, exc, stderr>>
       ELSE parsed' = JsonParse(r[1].text) /\ Goto("l23p")
    /\ UNCHANGED <<argv, disk, file_path, file_name, file_encoded, image_file,
                   raw, r_json, r_headers, r, posts, stdout, trace>>

ParseJsonRaiseForStatus ==
    /\ pc = "l23"
    /\ IF r[1].status_code >= 400
       THEN Raise("HTTPError") /\ UNCHANGED parsed
       ELSE IF JsonParse(r[1].text) = None
       THEN Raise("JSONDecodeError") /\ UNCHANGED parsed
       ELSE parsed' = JsonParse(r[1].text) /\ Goto("l23p")
    /\ UNCHANGED <<argv, disk, file_path, file_name, file_encoded, image_file,
                   raw, r_json, r_headers, r, posts, stdout, trace>>

(* line 23, the argument of print: r.json()                                *)
ParseJson ==
    /\ pc = "l23"
    /\ IF JsonParse(r[1].text) = None
       THEN Raise("JSONDecodeError") /\ UNCHANGED parsed
       ELSE parsed' = JsonParse(r[1].text) /\ Goto("l23p")
    /\ UNCHANGED <<argv, disk, file_path, file_name, file_encoded, image_file,
                   raw, r_json, r_headers, r, posts, stdout, trace>>

(* line 23: print(...), the last statement: the interpreter exits with 0.  *)
PrintResponse ==
    /\ pc = "l23p"
    /\ stdout' = Append(stdout, PyRepr(parsed[1]))
    /\ trace' = Append(trace, "print")
    /\ pc' = "exit"
    /\ exitStatus' = Some(0)
    /\ UNCHANGED <<argv, disk, file_path, file_name, file_encoded, image_file,
                   raw, r_json, r_headers, r, parsed, posts, exc, stderr>>

Next ==
    \/ GetFilePath
    \/ GetFileName
    \/ ClearEncoded
    \/ OpenFile
    \/ ReadFile
    \/ Encode
    \/ WithExit
    \/ BuildJson
    \/ BuildHeaders
    \/ Post
    \/ ParseJson
    \/ PrintResponse

Spec == Init /\ [][Next]_vars

-----------------------------------------------------------------------------
(* Vocabulary of the properties.                                           *)

Range(q) == {q[i] : i \in 1..Len(q)}

IsPrefix(p, q) == Len(p) <= Len(q) /\ SubSeq(q, 1, Len(p)) = p

Exited == pc = "exit"

NArgs == Len(argv) - 1

(* The file at filePath could not be opened, or its read failed.           *)
FileFailed ==
    /\ NArgs >= 1
    /\ \/ OpenError(disk) # ""
       \/ "read" \in Range(trace) /\ raw = None

Steps == <<"read", "encode", "build", "send", "print">>

FailureKinds == {"FileAccessError", "NetworkError", "ResponseParseError", "ArgumentError"}

(* Standard base64 decoding (RFC 4648, with padding); <<-1>> for text that *)
(* is not base64.                                                          *)
B64Val(c) ==
    IF c \in 65..90 THEN c - 65
    ELSE IF c \in 97..122 THEN c - 71
    ELSE IF c \in 48..57 THEN c + 4
    ELSE IF c = 43 THEN 62
    ELSE IF c = 47 THEN 63
    ELSE -1

RECURSIVE B64Decode(_)
B64Decode(t) ==
    IF Len(t) = 0 THEN <<>>
    ELSE IF Len(t) < 4 THEN <<-1>>
    ELSE LET a == B64Val(t[1])
             b == B64Val(t[2])
             c == B64Val(t[3])
             d == B64Val(t[4])
         IN  IF a < 0 \/ b < 0 THEN <<-1>>
             ELSE IF t[3] = Pad /\ t[4] = Pad /\ Len(t) = 4
                  THEN <<a * 4 + b \div 16>>
             ELSE IF c < 0 THEN <<-1>>
             ELSE IF t[4] = Pad /\ Len(t) = 4
                  THEN <<a * 4 + b \div 16, (b % 16) * 16 + c \div 4>>
             ELSE IF d < 0 THEN <<-1>>
             ELSE <<a * 4 + b \div 16, (b % 16) * 16 + c \div 4, (c % 4) * 64 + d>>
                  \o B64Decode(SubSeq(t, 5, Len(t)))

(* The part of s after its last separator, s itself when it has none.      *)
AfterLastSep(s) ==
    LET idx == {i \in 1..Len(s) : s[i] = Sep}
    IN  IF idx = {} THEN s
        ELSE SubSeq(s, (CHOOSE i \in idx : \A j \in idx : j <= i) + 1, Len(s))

HasSegment(s) == \E i \in 1..Len(s) : s[i] # Sep

-----------------------------------------------------------------------------
(* C1: whenever the file at filePath cannot be opened or read, no POST is  *)
(* ever issued and the run ends with a FileAccessError (non-zero exit).    *)
C1_FileFailureAbortsBeforePost ==
    FileFailed =>
        /\ posts = <<>>
        /\ "send" \notin Range(trace)
        /\ Exited => ErrorKind(exc) = "FileAccessError" /\ exitStatus = Some(1)

C1_Witness ==
    /\ Exited
    /\ NArgs = 3
    /\ disk.kind = "missing"
    /\ exc = "FileNotFoundError"

(* C2: no partial success.  A finished run either received a response,     *)
(* parsed it and printed exactly that, or aborted with one of the four     *)
(* failure kinds having printed nothing; and nothing is ever on standard   *)
(* output before a response has been received and parsed.                  *)
C2_NoPartialSuccess ==
    /\ stdout # <<>> => r # None /\ parsed # None /\ parsed = JsonParse(r[1].text)
    /\ Exited =>
          \/ /\ exc = ""
             /\ r # None
             /\ parsed # None
             /\ stdout = <<PyRepr(parsed[1])>>
          \/ /\ ErrorKind(exc) \in FailureKinds
             /\ stdout = <<>>

C2_Witness ==
    /\ Exited
    /\ exc = "JSONDecodeError"
    /\ r # None
    /\ stdout = <<>>

(* C3 as claimed: with fewer than three arguments every run ends in        *)
(* ArgumentError, whatever the state of the file.                          *)
C3_AlwaysArgumentError ==
    (Exited /\ NArgs < 3) => ErrorKind(exc) = "ArgumentError"

(* C3 as amended: with fewer than three arguments no POST is issued and    *)
(* the run fails; it ends in ArgumentError when no filePath was given or   *)
(* the file was read, and in FileAccessError when filePath is present and  *)
(* the file cannot be opened or read.                                      *)
C3_FewArgsFail ==
    NArgs < 3 =>
        /\ posts = <<>>
        /\ Exited =>
              /\ exitStatus = Some(1)
              /\ ErrorKind(exc) = IF FileFailed THEN "FileAccessError" ELSE "ArgumentError"

C3_Witness ==
    /\ Exited
    /\ NArgs = 2
    /\ disk.kind = "file"
    /\ raw # None
    /\ exc = "IndexError"

(* C4: the steps read, encode, build, send, print happen in this order,    *)
(* each at most once: one file read at most, one POST at most, no POST     *)
(* before the read has completed, no print before the POST has completed.  *)
C4_LinearOrder ==
    /\ IsPrefix(trace, Steps)
    /\ Len(posts) <= 1
    /\ Len(posts) = Cardinality({i \in 1..Len(trace) : trace[i] = "send"})
    /\ posts # <<>> => raw # None
    /\ Len(stdout) <= 1
    /\ stdout # <<>> => r # None

C4_Witness ==
    /\ Exited
    /\ exc = "ConnectionError"
    /\ trace = <<"read", "encode", "build", "send">>
    /\ Len(posts) = 1

(* C5: a finished run has exit status 0 exactly when the response was      *)
(* printed; a bad path, a network failure, a response body that is not     *)
(* JSON (whatever its status) and missing arguments all give a non-zero    *)
(* status.                                                                 *)
C5_ExitStatus ==
    Exited =>
        /\ exitStatus \in {Some(0), Some(1)}
        /\ exitStatus = Some(0) <=> stdout # <<>>
        /\ (\/ FileFailed
            \/ NArgs < 3
            \/ posts # <<>> /\ r = None
            \/ r # None /\ JsonParse(r[1].text) = None) => exitStatus = Some(1)

C5_Witness ==
    /\ Exited
    /\ r # None
    /\ r[1].status_code = 200
    /\ JsonParse(r[1].text) = None
    /\ exitStatus = Some(1)

(* C6: the outcome is a function of the response body alone: whatever the  *)
(* status code, a response whose body is JSON ends the run in success      *)
(* with the parsed body printed.                                           *)
C6_StatusIgnored ==
    (Exited /\ r # None /\ JsonParse(r[1].text) # None) =>
        /\ exc = ""
        /\ exitStatus = Some(0)
        /\ stdout = <<PyRepr(JsonParse(r[1].text)[1])>>

C6_Witness ==
    /\ Exited
    /\ r # None
    /\ r[1].status_code = 500
    /\ exitStatus = Some(0)
    /\ stdout = <<"{'error': 'Unauthorized'}">>

(* C7 as claimed: a path with at least one non-separator segment, a path   *)
(* that ends with a separator included, gives a non-empty name.            *)
C7_NameNonEmpty ==
    (file_name # None /\ HasSegment(file_path[1])) => file_name[1] # <<>>

(* C7 as amended: a non-empty path that does not end with a separator      *)
(* gives a non-empty name; a path that ends with a separator gives the     *)
(* empty name.                                                             *)
C7_NameNonEmptyUnlessTrailingSep ==
    file_name # None =>
        LET p == file_path[1]
        IN  /\ (Len(p) > 0 /\ p[Len(p)] # Sep) => file_name[1] # <<>>
            /\ (Len(p) > 0 /\ p[Len(p)] = Sep) => file_name[1] = <<>>

C7_Witness ==
    /\ file_name # None
    /\ file_path[1] = <<97, 47, 97, 47>>
    /\ file_name[1] = <<>>

(* C8: name is the part of filePath after its last '/', and filePath       *)
(* itself when it has no '/'.                                              *)
C8_NameIsLastSegment ==
    file_name # None => file_name[1] = AfterLastSep(file_path[1])

C8_Witness ==
    /\ file_name # None
    /\ file_path[1] = <<47, 97, 47, 97>>
    /\ file_name[1] = <<97>>

(* C9: every POST carries a JSON body with exactly the keys name, type,    *)
(* isPublic, data, parentId, type "image", isPublic true, parentId the     *)
(* third argument, X-Token the second argument, and data that decodes      *)
(* (standard base64) to exactly the bytes of the file.                     *)
C9_Payload ==
    \A i \in 1..Len(posts) :
        LET q == posts[i]
        IN  /\ DOMAIN q.json = {"name", "type", "isPublic", "data", "parentId"}
            /\ q.json.type = "image"
            /\ q.json.isPublic = TRUE
            /\ q.json.parentId = argv[4]
            /\ q.headers["X-Token"] = argv[3]
            /\ B64Decode(q.json.data) = disk.bytes

C9_Witness ==
    /\ Len(posts) = 1
    /\ disk.bytes = <<255, 77>>
    /\ posts[1].json.data = <<47, 48, 48, 61>>

C9_WitnessEmpty ==
    /\ Len(posts) = 1
    /\ disk.bytes = <<>>
    /\ posts[1].json.data = <<>>

HandleClosed ==
    /\ image_file.state = "open" => image_file.mode = "rb" /\ pc \in {"l11", "l11e", "l11x"}
    /\ pc = "l22" => image_file.state = "closed"
    /\ posts # <<>> => image_file.state = "closed"
    /\ Exited => image_file.state # "open"

(* C10: the file is opened read-only and only inside the with block: the   *)
(* handle is closed when the POST is issued and when the process ends,     *)
(* also after a failed read, and no step changes the file.                 *)
C10_HandleNotHeld ==
    /\ []HandleClosed
    /\ [][disk' = disk]_vars

C10_Witness ==
    /\ Exited
    /\ exc = "OSError"
    /\ image_file = [state |-> "closed", mode |-> "rb"]

====
